---------------------------- MODULE Spec2Model ----------------------------
(***************************************************************************)
(* Model of ESP32/dataacquisitionc.cpp: the three-channel Hall-sensor      *)
(* force platform (auto-zero, EMA filter, calibration polynomial, centre   *)
(* of pressure, dead-zone state machine, rate-limited serial telemetry).   *)
(*                                                                         *)
(* The sketch computes in IEEE-754 binary32 (float) and binary64 (double). *)
(* Both are modelled exactly: a finite value is sign * m * 2^e with m an   *)
(* arbitrary-precision natural number, every C++ operation is the exact    *)
(* operation followed by round-to-nearest-even to 24 or 53 bits.  TLC's    *)
(* integers are 32-bit, so m is kept as a sequence of 15-bit limbs.        *)
(* Values stay far from the overflow threshold (voltages <= 3.3, forces    *)
(* below 100 N), so rounding to infinity is not modelled.  Expressions are *)
(* evaluated operation by operation, as the C++ abstract machine does (no  *)
(* fused multiply-add contraction); the properties stated at the end read  *)
(* signs, comparisons with the baseline and products with a zero addend,   *)
(* which a contracted float multiply-add leaves as they are.               *)
(***************************************************************************)
EXTENDS Integers, Sequences, FiniteSets, TLC

\* ------------------------------------------------------------------------
\* Arbitrary-precision naturals: little-endian limbs, no most-significant
\* zero limb, zero is << >>.
\* ------------------------------------------------------------------------
LimbBits == 14 + 1
Base == 2^LimbBits

Limb(a, i) == IF i <= Len(a) THEN a[i] ELSE 0

RECURSIVE BTrim(_)
BTrim(a) ==
    IF a = << >> THEN a
    ELSE IF a[Len(a)] = 0 THEN BTrim(SubSeq(a, 1, Len(a) - 1)) ELSE a

RECURSIVE BOfInt(_)
BOfInt(n) == IF n = 0 THEN << >> ELSE <<n % Base>> \o BOfInt(n \div Base)

RECURSIVE BAddFrom(_, _, _, _)
BAddFrom(a, b, i, c) ==
    IF i > Len(a) /\ i > Len(b)
    THEN (IF c = 0 THEN << >> ELSE <<c>>)
    ELSE LET s == Limb(a, i) + Limb(b, i) + c
         IN  <<s % Base>> \o BAddFrom(a, b, i + 1, s \div Base)

BAdd(a, b) == BAddFrom(a, b, 1, 0)

\* a - b for a >= b
RECURSIVE BSubFrom(_, _, _, _)
BSubFrom(a, b, i, c) ==
    IF i > Len(a) THEN << >>
    ELSE LET d == a[i] - Limb(b, i) - c
         IN  IF d < 0 THEN <<d + Base>> \o BSubFrom(a, b, i + 1, 1)
                      ELSE <<d>> \o BSubFrom(a, b, i + 1, 0)

BSub(a, b) == BTrim(BSubFrom(a, b, 1, 0))

\* -1, 0, 1 as a < b, a = b, a > b
RECURSIVE BCmpFrom(_, _, _)
BCmpFrom(a, b, i) ==
    IF i = 0 THEN 0
    ELSE IF a[i] < b[i] THEN -1
    ELSE IF a[i] > b[i] THEN 1
    ELSE BCmpFrom(a, b, i - 1)

BCmp(a, b) ==
    IF Len(a) < Len(b) THEN -1
    ELSE IF Len(a) > Len(b) THEN 1
    ELSE BCmpFrom(a, b, Len(a))

\* a * k for 0 <= k < Base
RECURSIVE BMulSmallFrom(_, _, _, _)
BMulSmallFrom(a, k, i, c) ==
    IF i > Len(a) THEN (IF c = 0 THEN << >> ELSE <<c>>)
    ELSE LET s == a[i] * k + c
         IN  <<s % Base>> \o BMulSmallFrom(a, k, i + 1, s \div Base)

BMulSmall(a, k) == IF k = 0 THEN << >> ELSE BMulSmallFrom(a, k, 1, 0)

BShlLimbs(a, q) == IF a = << >> THEN a ELSE [i \in 1..q |-> 0] \o a

RECURSIVE BMulFrom(_, _, _)
BMulFrom(a, b, i) ==
    IF i > Len(b) THEN << >>
    ELSE BAdd(BShlLimbs(BMulSmall(a, b[i]), i - 1), BMulFrom(a, b, i + 1))

BMul(a, b) == BMulFrom(a, b, 1)

BShl(a, k) == BShlLimbs(BMulSmall(a, 2^(k % LimbBits)), k \div LimbBits)

\* floor(a / d) for 0 < d <= Base, from the most significant limb down
RECURSIVE BDivSmallFrom(_, _, _, _)
BDivSmallFrom(a, d, i, r) ==
    IF i = 0 THEN << >>
    ELSE LET n == r * Base + a[i]
         IN  BDivSmallFrom(a, d, i - 1, n % d) \o <<n \div d>>

BDropLimbs(a, q) == IF q >= Len(a) THEN << >> ELSE SubSeq(a, q + 1, Len(a))

\* floor(a / 2^k)
BShr(a, k) ==
    LET t == BDropLimbs(a, k \div LimbBits)
    IN  BTrim(BDivSmallFrom(t, 2^(k % LimbBits), Len(t), 0))

RECURSIVE BitLenInt(_)
BitLenInt(n) == IF n = 0 THEN 0 ELSE 1 + BitLenInt(n \div 2)

BBitLen(a) ==
    IF a = << >> THEN 0 ELSE LimbBits * (Len(a) - 1) + BitLenInt(a[Len(a)])

BIsOdd(a) == a # << >> /\ a[1] % 2 = 1

\* number of trailing zero bits of a # 0
RECURSIVE TzInt(_)
TzInt(n) == IF n % 2 = 1 THEN 0 ELSE 1 + TzInt(n \div 2)

RECURSIVE BTz(_, _)
BTz(a, i) == IF a[i] = 0 THEN LimbBits + BTz(a, i + 1) ELSE TzInt(a[i])

\* <<floor(r * 2^n / b), (r * 2^n) % b>> for r < b and n <= LimbBits, bit by
\* bit (restoring division); q is the quotient so far, below Base.
RECURSIVE BDivBits(_, _, _, _)
BDivBits(r, b, n, q) ==
    IF n = 0 THEN <<q, r>>
    ELSE LET r2 == BMulSmall(r, 2)
         IN  IF BCmp(r2, b) >= 0
             THEN BDivBits(BSub(r2, b), b, n - 1, 2 * q + 1)
             ELSE BDivBits(r2, b, n - 1, 2 * q)

\* The same for any n, a limb of quotient bits at a time.
RECURSIVE BDivFrom(_, _, _, _)
BDivFrom(r, b, n, q) ==
    IF n = 0 THEN <<q, r>>
    ELSE LET c == IF n < LimbBits THEN n ELSE LimbBits
             d == BDivBits(r, b, c, 0)
         IN  BDivFrom(d[2], b, n - c, BAdd(BShl(q, c), BOfInt(d[1])))

\* a decimal digit string as a natural, most significant digit first
RECURSIVE BOfDigits(_, _)
BOfDigits(ds, acc) ==
    IF ds = << >> THEN acc
    ELSE BOfDigits(Tail(ds), BAdd(BMulSmall(acc, 10), BOfInt(Head(ds))))

RECURSIVE BPow10(_)
BPow10(n) == IF n = 0 THEN <<1>> ELSE BMulSmall(BPow10(n - 1), 10)

\* ------------------------------------------------------------------------
\* Floating-point values: [nan, s, m, e] is NaN, or (-1)^s * m * 2^e with m
\* odd (or zero, then s = 0 and e = 0), so equal values are equal records.
\* ------------------------------------------------------------------------
NAN == [nan |-> TRUE, s |-> 0, m |-> << >>, e |-> 0]
Zero == [nan |-> FALSE, s |-> 0, m |-> << >>, e |-> 0]

Canon(s, m, e) ==
    IF m = << >> THEN Zero
    ELSE LET z == BTz(m, 1)
         IN  [nan |-> FALSE, s |-> s, m |-> BShr(m, z), e |-> e + z]

OfInt(n) == IF n < 0 THEN Canon(1, BOfInt(-n), 0) ELSE Canon(0, BOfInt(n), 0)

Max(a, b) == IF a >= b THEN a ELSE b

F32Bits == 24
F32MinExp == -149
F64Bits == 53
F64MinExp == -1074

\* Round-to-nearest, ties-to-even, to p significant bits with the smallest
\* quantum 2^emin (gradual underflow).
RoundTo(p, emin, x) ==
    IF x.nan \/ x.m = << >> THEN x
    ELSE LET q    == Max(BBitLen(x.m) + x.e - p, emin)
             drop == q - x.e
         IN  IF drop <= 0 THEN x
             ELSE LET mq   == BShr(x.m, drop)
                      rem  == BSub(x.m, BShl(mq, drop))
                      half == BShl(<<1>>, drop - 1)
                      c    == BCmp(rem, half)
                      up   == c > 0 \/ (c = 0 /\ BIsOdd(mq))
                  IN  Canon(x.s, IF up THEN BAdd(mq, <<1>>) ELSE mq, q)

F32(x) == RoundTo(F32Bits, F32MinExp, x)
F64(x) == RoundTo(F64Bits, F64MinExp, x)

\* Exact arithmetic on finite values; NaN propagates.
XNeg(x) == IF x.nan \/ x.m = << >> THEN x ELSE [x EXCEPT !.s = 1 - x.s]

XAdd(x, y) ==
    IF x.nan \/ y.nan THEN NAN
    ELSE IF x.m = << >> THEN y
    ELSE IF y.m = << >> THEN x
    ELSE LET e  == IF x.e <= y.e THEN x.e ELSE y.e
             mx == BShl(x.m, x.e - e)
             my == BShl(y.m, y.e - e)
             c  == BCmp(mx, my)
         IN  IF x.s = y.s THEN Canon(x.s, BAdd(mx, my), e)
             ELSE IF c = 0 THEN Zero
             ELSE IF c > 0 THEN Canon(x.s, BSub(mx, my), e)
             ELSE Canon(y.s, BSub(my, mx), e)

XSub(x, y) == XAdd(x, XNeg(y))

XMul(x, y) ==
    IF x.nan \/ y.nan THEN NAN
    ELSE IF x.m = << >> \/ y.m = << >> THEN Zero
    ELSE Canon((x.s + y.s) % 2, BMul(x.m, y.m), x.e + y.e)

\* x / y with p + 2 quotient bits and a sticky bit: rounds as the exact
\* quotient does.  0 / 0 is NaN; x / 0 is an infinity in IEEE-754, which this
\* model does not represent and gives as NaN too (the sketch divides by
\* ZEROING_SAMPLES, by literals, and by an F_tot above the rest threshold).
XDiv(p, x, y) ==
    IF x.nan \/ y.nan \/ y.m = << >> THEN NAN
    ELSE IF x.m = << >> THEN Zero
    ELSE LET la == BBitLen(x.m)
             lb == BBitLen(y.m)
             j  == Max(0, la - lb + 1)
             k  == p + 2 + Max(0, lb - la)
             d  == BDivFrom(x.m, BShl(y.m, j), k + j, << >>)
             m  == BAdd(BMulSmall(d[1], 2), IF d[2] # << >> THEN <<1>> ELSE << >>)
         IN  Canon((x.s + y.s) % 2, m, x.e - y.e - k - 1)

\* Comparisons (no operand is NaN where the sketch compares)
Sign(x) == IF x.m = << >> THEN 0 ELSE IF x.s = 1 THEN -1 ELSE 1
Lt(x, y) == Sign(XSub(x, y)) < 0
Le(x, y) == Sign(XSub(x, y)) <= 0
Gt(x, y) == Sign(XSub(x, y)) > 0

\* float and double operators of the C++ expression language
FMul(x, y) == F32(XMul(x, y))
FAdd(x, y) == F32(XAdd(x, y))
FSub(x, y) == F32(XSub(x, y))
FDiv(x, y) == F32(XDiv(F32Bits, x, y))
DMul(x, y) == F64(XMul(x, y))
DAdd(x, y) == F64(XAdd(x, y))
DSub(x, y) == F64(XSub(x, y))
DDiv(x, y) == F64(XDiv(F64Bits, x, y))

\* A decimal literal: the digits ds with nfrac of them after the point,
\* converted (correctly rounded) to double, or to float for an f suffix.
XLit(p, ds, nfrac) ==
    XDiv(p, Canon(0, BOfDigits(ds, << >>), 0), Canon(0, BPow10(nfrac), 0))
DLit(ds, nfrac) == F64(XLit(F64Bits, ds, nfrac))
FLit(ds, nfrac) == F32(XLit(F32Bits, ds, nfrac))

\* Square root of x >= 0, correctly rounded to float.  (sqrt on a float
\* argument is sqrtf, or the double sqrt narrowed on assignment: both give
\* the correctly rounded float.)
RECURSIVE BSqrtBits(_, _, _)
BSqrtBits(n, bit, r) ==
    IF bit < 0 THEN r
    ELSE LET c == BAdd(r, BShl(<<1>>, bit))
         IN  IF BCmp(BMul(c, c), n) <= 0
             THEN BSqrtBits(n, bit - 1, c)
             ELSE BSqrtBits(n, bit - 1, r)

FSqrt(x) ==
    IF x.nan \/ x.m = << >> THEN x
    ELSE LET want == 2 * F32Bits + 4
             k0   == Max(0, want - BBitLen(x.m))
             k    == IF (x.e - k0) % 2 = 0 THEN k0 ELSE k0 + 1
             n    == BShl(x.m, k)
             r    == BSqrtBits(n, (BBitLen(n) + 1) \div 2, << >>)
             st   == IF BMul(r, r) = n THEN << >> ELSE <<1>>
         IN  F32(Canon(0, BAdd(BMulSmall(r, 2), st), (x.e - k) \div 2 - 1))

\* ------------------------------------------------------------------------
\* unsigned long (32 bits on the ESP32): <<high half, low half>>
\* ------------------------------------------------------------------------
Half == 2^16

U32OfInt(n) == <<(n \div Half) % Half, n % Half>>

\* a + n modulo 2^32, 0 <= n < 2^16
U32Add(a, n) ==
    LET lo == a[2] + n
    IN  <<(a[1] + lo \div Half) % Half, lo % Half>>

\* a - b modulo 2^32
U32Sub(a, b) ==
    LET lo == a[2] - b[2]
        br == IF lo < 0 THEN 1 ELSE 0
    IN  <<(a[1] - b[1] - br + Half) % Half, (lo + Half) % Half>>

\* a >= n for 0 <= n < 2^16
U32GeInt(a, n) == a[1] > 0 \/ a[2] >= n

\* ------------------------------------------------------------------------
\* The sketch's constants
\* ------------------------------------------------------------------------
LOG_INTERVAL_MS == 50

P1 == XNeg(FLit(<<2, 1, 3, 9, 7, 1, 6, 8, 3>>, 8))
P2 == FLit(<<1, 8, 9, 6, 8, 5, 6, 8, 5, 7>>, 8)
P3 == XNeg(FLit(<<2, 5, 6, 1, 0, 2, 2, 2, 8, 9>>, 8))

C_REL_LEFT  == FLit(<<1, 0>>, 1)
C_REL_RIGHT == F32(DDiv(DLit(<<2, 3, 0>>, 1), FLit(<<2, 6, 0>>, 1)))
C_REL_VTC   == F32(DDiv(DLit(<<2, 3, 0>>, 1), FLit(<<3, 2, 4>>, 1)))

SYSTEM_FORCE_SCALE == FLit(<<5, 9, 1>>, 2)

EMA_ALPHA == FLit(<<0, 1, 5>>, 2)

ZEROING_SAMPLES == 200

P_LEFT_XY  == <<F32(DLit(<<0, 0>>, 1)), F32(DLit(<<0, 0>>, 1))>>
P_RIGHT_XY == <<F32(DLit(<<7, 0, 0>>, 2)), F32(DLit(<<0, 0>>, 1))>>
P_VTC_XY   == <<F32(DLit(<<3, 5>>, 1)), F32(DLit(<<2, 2, 0>>, 1))>>
GEOMETRIC_CENTER_XY ==
    << F32(DDiv(FAdd(FAdd(P_LEFT_XY[1], P_RIGHT_XY[1]), P_VTC_XY[1]),
                DLit(<<3, 0>>, 1))),
       F32(DDiv(FAdd(FAdd(P_LEFT_XY[2], P_RIGHT_XY[2]), P_VTC_XY[2]),
                DLit(<<3, 0>>, 1))) >>

MIN_REST_THRESHOLD_N == F32(DLit(<<3, 5>>, 1))
DEAD_ZONE_RADIUS_CM  == F32(DLit(<<2, 0>>, 1))

\* analogRead(pin) * (3.3 / 4095.0): int times double, a double
ADC_MAX == 4095
VoltsPerCount == DDiv(DLit(<<3, 3>>, 1), DLit(<<4, 0, 9, 5, 0>>, 1))
Volts(adc) == DMul(OfInt(adc), VoltsPerCount)

Channels == {"left", "right", "vtc"}

\* ------------------------------------------------------------------------
\* Bounds of the model and the inputs it draws
\* ------------------------------------------------------------------------
\* loop() iterations explored under Spec, under SpecGate and under SpecWrap
MaxCycles == 3
MaxGateCycles == 4
MaxWrapCycles == 3

\* Under SpecWrap: milliseconds left before millis() wraps round to 0
WrapIn == 60
\* and milliseconds passed since lastLogTime was read
WrapAges == {0, 30, 49}

\* TLC's evaluation stack is shallow: long loops are evaluated in chunks
Chunk == 5

\* The platform: per channel the ADC count the unloaded sensor gives (base)
\* and its noise (the unloaded readings are base, base + alt, base, ...).
\* 2047 averages to exactly the voltage read at 2047, where the polynomial
\* is negative; 2048 averages to less than the voltage read at 2048; 2079
\* averages to exactly the voltage read at 2079, where the polynomial is
\* positive.
Platforms ==
    { [left  |-> [base |-> 2047, alt |-> 0],
       right |-> [base |-> 2047, alt |-> 0],
       vtc   |-> [base |-> 2047, alt |-> 0]],
      [left  |-> [base |-> 2048, alt |-> 0],
       right |-> [base |-> 2079, alt |-> 0],
       vtc   |-> [base |-> 2047, alt |-> 1]] }

\* What a channel's sensor reads in one loop() iteration: its unloaded count
\* (idle), a few counts more (low), a light load (mid), full scale (max),
\* or nothing at all (zero)
Reading(sensor, level) ==
    CASE level = "idle" -> sensor.base
      [] level = "low"  -> sensor.base + 8
      [] level = "mid"  -> sensor.base + 253
      [] level = "max"  -> ADC_MAX
      [] level = "zero" -> 0

\* The loads of one loop() iteration
Scenes ==
    { [left |-> "idle", right |-> "idle", vtc |-> "idle"],
      [left |-> "low",  right |-> "mid",  vtc |-> "idle"],
      [left |-> "max",  right |-> "max",  vtc |-> "max"],
      [left |-> "max",  right |-> "idle", vtc |-> "idle"],
      [left |-> "idle", right |-> "max",  vtc |-> "idle"],
      [left |-> "idle", right |-> "idle", vtc |-> "max"],
      [left |-> "zero", right |-> "zero", vtc |-> "zero"] }

\* Milliseconds from one reading of millis() to the next loop() iteration's
\* gate test
CycleDelays == {30}
\* Milliseconds that may pass between two successive millis() calls
ReadDelays == {0}
\* Milliseconds setup() takes beyond its delay() calls
SetupExtra == {3}

\* The same under SpecGate: a steadily loaded platform, and iterations of
\* many durations
GateScenes == { [left |-> "max", right |-> "max", vtc |-> "max"] }
GateDelays == {1, 20, 50, 70}
GateReadDelays == {0, 1}

VARIABLES
    pc,               \* "boot": before setup(); "run": loop() repeats
    platform,         \* the sensors the sketch runs on (set when it boots)
    clock,            \* millis() at the latest reading of it
    elapsed,          \* true milliseconds since setup() returned
    lastLogTime,
    v_rest,           \* v_rest_left, v_rest_right, v_rest_vtc
    filtered_v,       \* filtered_v_left, filtered_v_right, filtered_v_vtc
    was_in_deadzone,
    cycles,           \* loop() iterations completed
    cyc,              \* the locals of the latest loop() iteration, with
                      \* was_in_deadzone as it began (entered_in_deadzone)
    serial,           \* kinds of the lines written to Serial, in order
    record,           \* arguments of the latest data row written to Serial
    history           \* what the latest iteration found, and true times

vars == <<pc, platform, clock, elapsed, lastLogTime, v_rest, filtered_v,
          was_in_deadzone, cycles, cyc, serial, record, history>>

PerChannel(v) == [left |-> v, right |-> v, vtc |-> v]

\* the record of Op(ch) for the three channels
ForEachChannel(Op(_)) ==
    [left |-> Op("left"), right |-> Op("right"), vtc |-> Op("vtc")]

NoCycle ==
    [adc |-> PerChannel(0), v_raw |-> PerChannel(Zero),
     raw |-> PerChannel(Zero), F |-> PerChannel(Zero),
     F_tot |-> Zero, isArmRested |-> FALSE, cop_x |-> NAN, cop_y |-> NAN,
     dist_from_center |-> NAN,
     copStateChanged |-> FALSE, now_in_deadzone |-> FALSE,
     entered_in_deadzone |-> FALSE,
     logged |-> FALSE, gate_time |-> U32OfInt(0)]

NoRecord ==
    [Timestamp |-> U32OfInt(0), F_left |-> Zero, F_right |-> Zero,
     F_vtc |-> Zero, F_tot |-> Zero, is_rested |-> 0, copStateChanged |-> 0,
     CoP_X |-> NAN, CoP_Y |-> NAN]

\* Nothing has run: prev is the cyc the latest iteration found, lastLogTime
\* the lastLogTime it found, log_elapsed the true time (on the scale of
\* elapsed) at which lastLogTime was last read from millis(), and
\* gate_elapsed the true time at which the latest iteration read its gate
NoHistory ==
    [prev |-> NoCycle, lastLogTime |-> U32OfInt(0), log_elapsed |-> 0,
     prev_log_elapsed |-> 0, gate_elapsed |-> 0]

\* Globals as the C++ runtime initialises them before setup()
Init ==
    /\ pc = "boot"
    /\ platform \in Platforms
    /\ clock = U32OfInt(0)
    /\ elapsed = 0
    /\ lastLogTime = U32OfInt(0)
    /\ v_rest = PerChannel(Zero)
    /\ filtered_v = PerChannel(Zero)
    /\ was_in_deadzone = FALSE
    /\ cycles = 0
    /\ cyc = NoCycle
    /\ serial = << >>
    /\ record = NoRecord
    /\ history = NoHistory

\* ------------------------------------------------------------------------
\* setup()
\* ------------------------------------------------------------------------
Sample(sensor, i) == sensor.base + (IF i % 2 = 0 THEN sensor.alt ELSE 0)

\* sum_v += analogRead(pin) * (3.3 / 4095.0), for samples i .. i + n - 1
RECURSIVE SumRun(_, _, _, _)
SumRun(sensor, i, n, sum) ==
    IF n = 0 THEN sum
    ELSE SumRun(sensor, i + 1, n - 1, F32(DAdd(sum, Volts(Sample(sensor, i)))))

\* The zeroing loop, Chunk samples at a time (sum.nan is never true: the
\* test makes TLC finish a chunk before it starts the next).
RECURSIVE SumFrom(_, _, _, _)
SumFrom(sensor, i, n, sum) ==
    IF n = 0 \/ sum.nan THEN sum
    ELSE LET c == IF n < Chunk THEN n ELSE Chunk
         IN  SumFrom(sensor, i + c, n - c, SumRun(sensor, i, c, sum))

AutoZero(sensor) ==
    FDiv(SumFrom(sensor, 1, ZEROING_SAMPLES, Zero), OfInt(ZEROING_SAMPLES))

\* A faulty SetupLines: the column header is printed before and after
SetupLines_HeaderTwice ==
    <<"header", "banner", "zeroing", "zeroed", "rest_voltages", "ready",
      "header">>

\* What setup() prints, in order; the last line is the column header
SetupLines ==
    <<"banner", "zeroing", "zeroed", "rest_voltages", "ready", "header">>

\* delay(1000), and delay(10) in each zeroing iteration
SetupDelay == 1000 + ZEROING_SAMPLES * 10

\* A faulty Setup: the filters are not initialised with the baselines
Setup_FiltersNotInitialised ==
    /\ pc = "boot"
    /\ v_rest' = ForEachChannel(LAMBDA ch : AutoZero(platform[ch]))
    /\ \E extra \in SetupExtra : clock' = U32Add(clock, SetupDelay + extra)
    /\ serial' = serial \o SetupLines
    /\ pc' = "run"
    /\ UNCHANGED <<platform, elapsed, lastLogTime, filtered_v, was_in_deadzone,
                   cycles, cyc, record, history>>

Setup ==
    /\ pc = "boot"
    /\ \E rest \in {ForEachChannel(LAMBDA ch : AutoZero(platform[ch]))} :
         /\ v_rest' = rest
         /\ filtered_v' = rest
    /\ \E extra \in SetupExtra : clock' = U32Add(clock, SetupDelay + extra)
    /\ serial' = serial \o SetupLines
    /\ pc' = "run"
    /\ UNCHANGED <<platform, elapsed, lastLogTime, was_in_deadzone, cycles,
                   cyc, record, history>>

\* ------------------------------------------------------------------------
\* loop()
\* ------------------------------------------------------------------------
\* A faulty FMax: the polynomial is returned unclamped
FMax_Unclamped(a, b) == b

\* max(a, b) of Arduino.h: ((a) > (b) ? (a) : (b))
FMax(a, b) == IF Gt(a, b) THEN a ELSE b

\* (P1 * voltage * voltage) + (P2 * voltage) + P3, in float
Polynomial(voltage) ==
    FAdd(FAdd(FMul(FMul(P1, voltage), voltage), FMul(P2, voltage)), P3)

\* A faulty voltageToRawUnit: a voltage equal to the baseline is not clipped
voltageToRawUnit_Strict(voltage, rest) ==
    IF Lt(voltage, rest) THEN Zero ELSE FMax(Zero, Polynomial(voltage))

voltageToRawUnit(voltage, rest) ==
    IF Le(voltage, rest) THEN Zero ELSE FMax(Zero, Polynomial(voltage))

\* A faulty EmaFilter: the old value is weighted by EMA_ALPHA too
EmaFilter_SameWeight(v_raw, filtered) ==
    F32(DAdd(FMul(EMA_ALPHA, v_raw), FMul(EMA_ALPHA, filtered)))

\* filtered = (EMA_ALPHA * raw) + (1.0 - EMA_ALPHA) * filtered: a float
\* product, a double product and sum, narrowed to float on assignment
EmaFilter(v_raw, filtered) ==
    F32(DAdd(FMul(EMA_ALPHA, v_raw),
             DMul(DSub(DLit(<<1, 0>>, 1), EMA_ALPHA), filtered)))

C_REL == [left |-> C_REL_LEFT, right |-> C_REL_RIGHT, vtc |-> C_REL_VTC]

\* F = (raw * C_REL) * SYSTEM_FORCE_SCALE
Force(raw, c_rel) == FMul(FMul(raw, c_rel), SYSTEM_FORCE_SCALE)

Total(F) == FAdd(FAdd(F.left, F.right), F.vtc)

\* A faulty isArmRestedOf: a total equal to the threshold counts as rest
isArmRestedOf_AtLeast(F_tot) == ~Lt(F_tot, MIN_REST_THRESHOLD_N)

\* A faulty isArmRestedOf: the comparison is turned round
isArmRestedOf_Below(F_tot) == Lt(F_tot, MIN_REST_THRESHOLD_N)

isArmRestedOf(F_tot) == Gt(F_tot, MIN_REST_THRESHOLD_N)

\* A faulty Centroid: the plain mean of the weighted positions
Centroid_Mean(F, F_tot, k) ==
    FDiv(FAdd(FAdd(FMul(P_LEFT_XY[k], F.left), FMul(P_RIGHT_XY[k], F.right)),
              FMul(P_VTC_XY[k], F.vtc)),
         OfInt(3))

\* coordinate k (1: x, 2: y) of the centre of pressure
Centroid(F, F_tot, k) ==
    FDiv(FAdd(FAdd(FMul(P_LEFT_XY[k], F.left), FMul(P_RIGHT_XY[k], F.right)),
              FMul(P_VTC_XY[k], F.vtc)),
         F_tot)

\* A faulty CoP: the centroid is computed without looking at isArmRested
CoP_Always(rested, F, F_tot, k) == Centroid(F, F_tot, k)

\* cop_x, cop_y: NAN unless the arm is rested
CoP(rested, F, F_tot, k) == IF rested THEN Centroid(F, F_tot, k) ELSE NAN

DistFromCenter(cop_x, cop_y) ==
    LET dx == FSub(cop_x, GEOMETRIC_CENTER_XY[1])
        dy == FSub(cop_y, GEOMETRIC_CENTER_XY[2])
    IN  FSqrt(FAdd(FMul(dx, dx), FMul(dy, dy)))

\* A faulty NowInDeadzone: the boundary of the dead zone is left outside
NowInDeadzone_Strict(rested, dist) ==
    rested /\ Lt(dist, DEAD_ZONE_RADIUS_CM)

\* now_in_deadzone: false unless the arm is rested
NowInDeadzone(rested, dist) ==
    rested /\ Le(dist, DEAD_ZONE_RADIUS_CM)

\* A faulty StateChanged: raised on every rested cycle inside the dead zone
StateChanged_Level(rested, now_in, was_in) == rested /\ now_in

\* A faulty StateChanged: the comparison is made without rest too
StateChanged_Unguarded(rested, now_in, was_in) == now_in # was_in

\* copStateChanged, from now_in_deadzone and the was_in_deadzone it meets
StateChanged(rested, now_in, was_in) == rested /\ now_in # was_in

\* A faulty NextDeadzone: the membership survives a cycle without rest
NextDeadzone_Kept(rested, now_in) == IF rested THEN now_in ELSE was_in_deadzone

\* was_in_deadzone as the iteration leaves it
NextDeadzone(rested, now_in) == IF rested THEN now_in ELSE FALSE

\* Serial.print(bool) prints the bool as an int
BoolArg(b) == IF b THEN 1 ELSE 0

\* Sections 1 to 4 of loop(), each adding the locals it computes to the
\* record of those computed before it.
\* 1. acquisition and filtering
Acquire(adc) ==
    [adc |-> adc, v_raw |-> ForEachChannel(LAMBDA ch : F32(Volts(adc[ch])))]

Filter(p) ==
    p @@ [filtered |-> ForEachChannel(LAMBDA ch :
                           EmaFilter(p.v_raw[ch], filtered_v[ch]))]

\* 2. conversion to raw units
Convert(p) ==
    p @@ [raw |-> ForEachChannel(LAMBDA ch :
                      voltageToRawUnit(p.filtered[ch], v_rest[ch]))]

\* 3. two-stage calibration, and the total
Calibrate(p) ==
    p @@ [F |-> ForEachChannel(LAMBDA ch : Force(p.raw[ch], C_REL[ch]))]

Sum(p) == p @@ [F_tot |-> Total(p.F)]

\* 4. rest state, centre of pressure, dead zone
Rest(p) == p @@ [isArmRested |-> isArmRestedOf(p.F_tot)]

Locate(p) ==
    p @@ [cop_x |-> CoP(p.isArmRested, p.F, p.F_tot, 1),
          cop_y |-> CoP(p.isArmRested, p.F, p.F_tot, 2)]

\* dist_from_center is a local of the rested branch (NAN stands for it on
\* a cycle that does not take the branch)
Measure(p) ==
    p @@ [dist_from_center |-> IF p.isArmRested
                               THEN DistFromCenter(p.cop_x, p.cop_y)
                               ELSE NAN]

Zone(p) ==
    p @@ [now_in_deadzone |-> NowInDeadzone(p.isArmRested, p.dist_from_center)]

Decide(p) ==
    p @@ [copStateChanged |->
              StateChanged(p.isArmRested, p.now_in_deadzone, was_in_deadzone),
          was_in_deadzone |-> NextDeadzone(p.isArmRested, p.now_in_deadzone)]

Pipeline(adc) ==
    Decide(Zone(Measure(Locate(Rest(Sum(Calibrate(Convert(Filter(
        Acquire(adc))))))))))

\* A faulty GateOpen: millis() >= lastLogTime + LOG_INTERVAL_MS, a deadline
\* that wraps round before the clock does
GateOpen_Deadline(now, last) ==
    LET deadline == U32Add(last, LOG_INTERVAL_MS)
    IN  \/ now[1] > deadline[1]
        \/ (now[1] = deadline[1] /\ now[2] >= deadline[2])

\* A faulty GateOpen: the interval has to be exceeded
GateOpen_Strict(now, last) ==
    U32GeInt(U32Sub(now, last), LOG_INTERVAL_MS + 1)

\* A faulty GateOpen: the time of the last row is not subtracted
GateOpen_NoLast(now, last) == U32GeInt(now, LOG_INTERVAL_MS)

\* millis() - lastLogTime >= LOG_INTERVAL_MS, in unsigned long
GateOpen(now, last) == U32GeInt(U32Sub(now, last), LOG_INTERVAL_MS)

\* A faulty Row: copStateChanged stays raised until a row has shown it
Row_Latched(p, t) ==
    [Timestamp |-> t,
     F_left |-> p.F.left, F_right |-> p.F.right, F_vtc |-> p.F.vtc,
     F_tot |-> p.F_tot,
     is_rested |-> BoolArg(p.isArmRested),
     copStateChanged |->
         BoolArg(p.copStateChanged
                     \/ (cyc.copStateChanged /\ ~cyc.logged)),
     CoP_X |-> p.cop_x, CoP_Y |-> p.cop_y]

\* The row section 5 prints from the locals p, stamped t
Row(p, t) ==
    [Timestamp |-> t,
     F_left |-> p.F.left, F_right |-> p.F.right, F_vtc |-> p.F.vtc,
     F_tot |-> p.F_tot,
     is_rested |-> BoolArg(p.isArmRested),
     copStateChanged |-> BoolArg(p.copStateChanged),
     CoP_X |-> p.cop_x, CoP_Y |-> p.cop_y]

\* Section 5 of loop(), after the pipeline left p: d1 ms after the previous
\* reading of millis() the gate reads it; when the gate opens, lastLogTime
\* reads it again d2 ms later and the row's timestamp d3 ms after that.
Log(p, d1, d2, d3) ==
    LET t1 == U32Add(clock, d1)
        t2 == U32Add(t1, d2)
        t3 == U32Add(t2, d3)
        open == GateOpen(t1, lastLogTime)
    IN  /\ cyc' = [adc |-> p.adc, v_raw |-> p.v_raw, raw |-> p.raw,
                   F |-> p.F, F_tot |-> p.F_tot,
                   isArmRested |-> p.isArmRested,
                   cop_x |-> p.cop_x, cop_y |-> p.cop_y,
                   dist_from_center |-> p.dist_from_center,
                   copStateChanged |-> p.copStateChanged,
                   now_in_deadzone |-> p.now_in_deadzone,
                   entered_in_deadzone |-> was_in_deadzone,
                   logged |-> open, gate_time |-> t1]
        /\ history' = [prev |-> cyc, lastLogTime |-> lastLogTime,
                       prev_log_elapsed |-> history.log_elapsed,
                       gate_elapsed |-> elapsed + d1,
                       log_elapsed |-> IF open THEN elapsed + d1 + d2
                                       ELSE history.log_elapsed]
        /\ IF open
           THEN /\ lastLogTime' = t2
                /\ clock' = t3
                /\ elapsed' = elapsed + d1 + d2 + d3
                /\ serial' = Append(serial, "row")
                /\ record' = Row(p, t3)
           ELSE /\ clock' = t1
                /\ elapsed' = elapsed + d1
                /\ UNCHANGED <<lastLogTime, serial, record>>

\* A faulty LoopOf: the filters are updated only when the gate is open
LoopOf_FilterWhenLogging(scenes, delays, readDelays, maxCycles) ==
    /\ pc = "run"
    /\ cycles < maxCycles
    /\ \E scene \in scenes :
         \E p \in {Pipeline(ForEachChannel(
                       LAMBDA ch : Reading(platform[ch], scene[ch])))} :
           /\ was_in_deadzone' = p.was_in_deadzone
           /\ \E d1 \in delays, d2 \in readDelays, d3 \in readDelays :
                /\ Log(p, d1, d2, d3)
                /\ filtered_v' = IF GateOpen(U32Add(clock, d1), lastLogTime)
                                  THEN p.filtered ELSE filtered_v
    /\ cycles' = cycles + 1
    /\ UNCHANGED <<pc, platform, v_rest>>

\* One iteration of loop(), under the loads scenes and the timing delays
LoopOf(scenes, delays, readDelays, maxCycles) ==
    /\ pc = "run"
    /\ cycles < maxCycles
    /\ \E scene \in scenes :
         \E p \in {Pipeline(ForEachChannel(
                       LAMBDA ch : Reading(platform[ch], scene[ch])))} :
           /\ filtered_v' = p.filtered
           /\ was_in_deadzone' = p.was_in_deadzone
           /\ \E d1 \in delays, d2 \in readDelays, d3 \in readDelays :
                Log(p, d1, d2, d3)
    /\ cycles' = cycles + 1
    /\ UNCHANGED <<pc, platform, v_rest>>

Loop == LoopOf(Scenes, CycleDelays, ReadDelays, MaxCycles)

LoopGate == LoopOf(GateScenes, GateDelays, GateReadDelays, MaxGateCycles)

Next == Setup \/ Loop

Spec == Init /\ [][Next]_vars

NextGate == Setup \/ LoopGate

SpecGate == Init /\ [][NextGate]_vars

\* Platforms whose unloaded readings leave the filters at the baselines
SteadyPlatforms ==
    {pl \in Platforms :
        \A ch \in Channels :
            /\ pl[ch].alt = 0
            /\ EmaFilter(F32(Volts(pl[ch].base)), AutoZero(pl[ch]))
                   = AutoZero(pl[ch])}

\* The sketch after 2^32 - WrapIn milliseconds unloaded: the filters are at
\* the baselines still, nothing is in the dead zone, a row was written some
\* milliseconds ago (of Serial only setup()'s lines and that row are kept).
\* elapsed, cycles, cyc and history start afresh here.
InitWrap ==
    /\ pc = "run"
    /\ platform \in SteadyPlatforms
    /\ clock = <<Half - 1, Half - WrapIn>>
    /\ elapsed = 0
    /\ \E age \in WrapAges :
         /\ lastLogTime = U32Sub(clock, U32OfInt(age))
         /\ history = [NoHistory EXCEPT !.log_elapsed = -age,
                                         !.lastLogTime = lastLogTime]
    /\ v_rest = ForEachChannel(LAMBDA ch : AutoZero(platform[ch]))
    /\ filtered_v = v_rest
    /\ was_in_deadzone = FALSE
    /\ cycles = 0
    /\ cyc = NoCycle
    /\ serial = Append(SetupLines, "row")
    /\ record = NoRecord

LoopWrap == LoopOf(GateScenes, GateDelays, GateReadDelays, MaxWrapCycles)

NextWrap == LoopWrap

SpecWrap == InitWrap /\ [][NextWrap]_vars

\* ------------------------------------------------------------------------
\* Properties
\* ------------------------------------------------------------------------
\* C1: on a rested cycle copStateChanged is true exactly when the dead-zone
\* membership differs from the one the cycle began with: true on the cycle
\* the membership goes from false to true, false on every cycle that keeps
\* the membership of the cycle before it.
C1_ChangedOnlyOnTransition ==
    [][(cycles' = cycles + 1 /\ cyc'.isArmRested) =>
           /\ (~was_in_deadzone /\ was_in_deadzone') => cyc'.copStateChanged
           /\ (was_in_deadzone' = was_in_deadzone) => ~cyc'.copStateChanged]_vars

\* A rested cycle that stays inside the dead zone, unchanged: the membership
\* became true on an earlier cycle.
C1_Witness ==
    /\ cyc.isArmRested
    /\ cyc.entered_in_deadzone
    /\ was_in_deadzone
    /\ ~cyc.copStateChanged

\* C2: after every cycle without rest was_in_deadzone is false and
\* copStateChanged is false, whatever was_in_deadzone was before.
C2_RestLostResetsDeadzone ==
    (cycles >= 1 /\ ~cyc.isArmRested) =>
        (~was_in_deadzone /\ ~cyc.copStateChanged)

\* Rest is lost on a cycle that began inside the dead zone.
C2_Witness ==
    /\ cycles >= 1
    /\ ~cyc.isArmRested
    /\ cyc.entered_in_deadzone


\* Data rows written so far
Rows == Cardinality({i \in DOMAIN serial : serial[i] = "row"})

\* C3: over the T = elapsed milliseconds since loop() first ran, at most
\* elapsed \div LOG_INTERVAL_MS + 1 rows are written, whatever the number
\* and the duration of the iterations.
C3_RowsAtMostOnePerInterval ==
    Rows <= elapsed \div LOG_INTERVAL_MS + 1

\* The bound is met: two rows within fewer than two intervals, arm rested.
C3_Witness ==
    /\ cyc.isArmRested
    /\ Rows >= 2
    /\ Rows = elapsed \div LOG_INTERVAL_MS + 1

\* C3 as the specification words it: the rows written over elapsed
\* milliseconds number elapsed \div LOG_INTERVAL_MS, or one more.
C3_RowsFollowElapsed ==
    \/ Rows = elapsed \div LOG_INTERVAL_MS
    \/ Rows = elapsed \div LOG_INTERVAL_MS + 1


\* C4: after every cycle without rest cop_x and cop_y are NaN, and so are
\* CoP_X and CoP_Y of the row the cycle wrote, if it wrote one; a cop_x or
\* cop_y that is a number means the arm is rested.
C4_NoRestNoCoP ==
    cycles >= 1 =>
        /\ ~cyc.isArmRested =>
               /\ cyc.cop_x.nan /\ cyc.cop_y.nan
               /\ cyc.logged => (record.CoP_X.nan /\ record.CoP_Y.nan)
        /\ (~cyc.cop_x.nan \/ ~cyc.cop_y.nan) => cyc.isArmRested

\* A cycle without rest under a load below the threshold, which wrote a row
C4_Witness ==
    /\ cycles >= 1
    /\ ~cyc.isArmRested
    /\ Gt(cyc.F_tot, Zero)
    /\ cyc.logged
    /\ record.is_rested = 0

\* C5: a channel whose filtered voltage is at or below its rest baseline
\* has raw unit 0 and force 0.
C5_ClippedAtOrBelowBaseline ==
    cycles >= 1 =>
        \A ch \in Channels :
            Le(filtered_v[ch], v_rest[ch]) =>
                (cyc.raw[ch] = Zero /\ cyc.F[ch] = Zero)

\* A channel exactly at its baseline, where the polynomial is positive
C5_Witness ==
    /\ cycles >= 1
    /\ \E ch \in Channels :
         /\ filtered_v[ch] = v_rest[ch]
         /\ Gt(Polynomial(filtered_v[ch]), Zero)
         /\ cyc.F[ch] = Zero

\* C6: F_left, F_right, F_vtc and F_tot are never negative.
C6_ForcesNonNegative ==
    /\ \A ch \in Channels : Le(Zero, cyc.F[ch])
    /\ Le(Zero, cyc.F_tot)

\* A channel above its baseline where the polynomial is negative
C6_Witness ==
    /\ cycles >= 1
    /\ \E ch \in Channels :
         /\ Gt(filtered_v[ch], v_rest[ch])
         /\ Lt(Polynomial(filtered_v[ch]), Zero)
         /\ cyc.F[ch] = Zero


\* C7: a cycle whose sample of a channel equals the channel's filtered
\* voltage leaves that filtered voltage as it was; so a channel fed its
\* filter's initial value keeps that value after any number of cycles.
C7_FilterFixedPoint ==
    [][cycles' = cycles + 1 =>
           \A ch \in Channels :
               cyc'.v_raw[ch] = filtered_v[ch] =>
                   filtered_v'[ch] = filtered_v[ch]]_vars

\* After the last cycle a channel sampled at its filter's initial value
\* (the rest baseline) still holds it
C7_Witness ==
    /\ cycles = MaxCycles
    /\ \E ch \in Channels :
         /\ cyc.v_raw[ch] = v_rest[ch]
         /\ filtered_v[ch] = v_rest[ch]

\* All three channels sampled exactly at their rest baselines
AtBaseline(c) == \A ch \in Channels : c.v_raw[ch] = v_rest[ch]

\* C8: from the state setup() leaves (filters at the baselines, outside
\* the dead zone), a cycle that samples every channel at its baseline gives
\* zero forces, no rest, a NaN centre of pressure and no state change,
\* and leaves the state as setup() left it.
C8_BaselineGivesNothing ==
    [][(/\ cycles' = cycles + 1
        /\ filtered_v = v_rest
        /\ ~was_in_deadzone
        /\ AtBaseline(cyc')) =>
           /\ \A ch \in Channels : cyc'.F[ch] = Zero
           /\ cyc'.F_tot = Zero
           /\ ~cyc'.isArmRested
           /\ cyc'.cop_x.nan /\ cyc'.cop_y.nan
           /\ ~cyc'.copStateChanged
           /\ ~was_in_deadzone'
           /\ filtered_v' = v_rest]_vars

\* Every cycle so far sampled the baselines (the filters never moved)
C8_Witness ==
    /\ cycles = MaxCycles
    /\ AtBaseline(cyc)
    /\ filtered_v = v_rest
    /\ cyc.F_tot = Zero
    /\ ~cyc.isArmRested

\* The fixed position of each sensor
Position == [left |-> P_LEFT_XY, right |-> P_RIGHT_XY, vtc |-> P_VTC_XY]

\* Channel ch alone carries a force, and it exceeds the rest threshold
Sole(ch) ==
    /\ cycles >= 1
    /\ cyc.F[ch] # Zero
    /\ \A o \in Channels \ {ch} : cyc.F[o] = Zero
    /\ Gt(cyc.F_tot, MIN_REST_THRESHOLD_N)

XAbs(x) == IF x.nan THEN x ELSE [x EXCEPT !.s = 0]

\* x is y, or a float next to y: |x - y| <= |y| * 2^-23
Near(x, y) ==
    /\ ~x.nan
    /\ Le(XAbs(XSub(x, y)), XMul(XAbs(y), Canon(0, <<1>>, 1 - F32Bits)))

\* C9: when one channel alone carries a force above the rest threshold,
\* isArmRested is true; the centre of pressure is exactly (0, 0) when the
\* channel is Left, and each of its coordinates is the sensor's coordinate
\* or a float next to it when the channel is Right or VTC.
C9_SoleContributorNearPosition ==
    \A ch \in Channels :
        Sole(ch) =>
            /\ cyc.isArmRested
            /\ Near(cyc.cop_x, Position[ch][1])
            /\ Near(cyc.cop_y, Position[ch][2])
            /\ ch = "left" => (cyc.cop_x = Zero /\ cyc.cop_y = Zero)

\* Right alone carries the force, and cop_x is not its x coordinate
C9_Witness ==
    /\ Sole("right")
    /\ cyc.isArmRested
    /\ cyc.cop_x # P_RIGHT_XY[1]
    /\ cyc.cop_y = P_RIGHT_XY[2]

\* C9 as the specification words it: the centre of pressure is exactly
\* the position of the sole contributor.
C9_SoleContributorAtPosition ==
    \A ch \in Channels :
        Sole(ch) =>
            /\ cyc.isArmRested
            /\ cyc.cop_x = Position[ch][1]
            /\ cyc.cop_y = Position[ch][2]

\* Indices of the lines of one kind written to Serial
LinesOf(kind) == {i \in DOMAIN serial : serial[i] = kind}

\* C10: nothing is written before setup(); once it ran, the header has
\* been written exactly once, and every data row comes after it.
C10_HeaderOnceBeforeRows ==
    /\ pc = "boot" => serial = << >>
    /\ pc = "run" =>
         /\ Cardinality(LinesOf("header")) = 1
         /\ \A h \in LinesOf("header"), r \in LinesOf("row") : h < r

\* Two data rows were written
C10_Witness ==
    /\ pc = "run"
    /\ Cardinality(LinesOf("row")) >= 2


\* The point of the dead zone's boundary to the right of the centre, at
\* distance DEAD_ZONE_RADIUS_CM exactly
BoundaryPoint ==
    <<FAdd(GEOMETRIC_CENTER_XY[1], DEAD_ZONE_RADIUS_CM), GEOMETRIC_CENTER_XY[2]>>

\* Its distance from the centre, and whether loop() puts it in the dead zone
BoundaryDistance == DistFromCenter(BoundaryPoint[1], BoundaryPoint[2])
BoundaryInside == NowInDeadzone(TRUE, BoundaryDistance)

\* C11: on every rested cycle now_in_deadzone is (distance of the centre of
\* pressure from the geometric centre <= DEAD_ZONE_RADIUS_CM), the boundary
\* included; copStateChanged is (now_in_deadzone differs from the
\* was_in_deadzone the cycle found), entering and leaving alike; and
\* was_in_deadzone is now_in_deadzone after the cycle.
C11_DeadzoneStep ==
    [][(cycles' = cycles + 1 /\ cyc'.isArmRested) =>
           \A inside \in {Le(cyc'.dist_from_center, DEAD_ZONE_RADIUS_CM)} :
               /\ cyc'.now_in_deadzone = inside
               /\ cyc'.copStateChanged = (inside # was_in_deadzone)
               /\ was_in_deadzone' = inside
               /\ BoundaryDistance = DEAD_ZONE_RADIUS_CM
               /\ BoundaryInside]_vars

\* A rested cycle that leaves the dead zone, after one that entered it
C11_Witness ==
    /\ cyc.isArmRested
    /\ cyc.entered_in_deadzone
    /\ ~was_in_deadzone
    /\ cyc.copStateChanged
    /\ history.prev.isArmRested
    /\ history.prev.copStateChanged

\* Whether loop() takes an F_tot equal to the threshold for rest
RestedAtThreshold == isArmRestedOf(MIN_REST_THRESHOLD_N)

\* C12: cop_x and cop_y are numbers only after a cycle whose F_tot exceeds
\* MIN_REST_THRESHOLD_N, which is positive, so the divisor is never zero;
\* after a cycle whose F_tot is 0 they are NaN, and an F_tot equal to the
\* threshold is not rest and leaves them NaN.
C12_DivisionGuarded ==
    /\ Gt(MIN_REST_THRESHOLD_N, Zero)
    /\ ~RestedAtThreshold
    /\ \A k \in 1..2 :
          CoP(RestedAtThreshold, cyc.F, MIN_REST_THRESHOLD_N, k).nan
    /\ cycles >= 1 =>
         /\ cyc.isArmRested = Gt(cyc.F_tot, MIN_REST_THRESHOLD_N)
         /\ (~cyc.cop_x.nan \/ ~cyc.cop_y.nan) =>
                (Gt(cyc.F_tot, MIN_REST_THRESHOLD_N) /\ cyc.F_tot # Zero)
         /\ cyc.F_tot = Zero => (cyc.cop_x.nan /\ cyc.cop_y.nan)
         /\ cyc.isArmRested => (~cyc.cop_x.nan /\ ~cyc.cop_y.nan)

\* After a cycle with F_tot = 0: no rest, no division, NaN
C12_Witness ==
    /\ cycles >= 2
    /\ cyc.F_tot = Zero
    /\ ~cyc.isArmRested
    /\ cyc.cop_x.nan /\ cyc.cop_y.nan
    /\ history.prev.isArmRested
    /\ ~history.prev.cop_x.nan


\* The filter after n samples x, from the value f
RECURSIVE FilterRun(_, _, _)
FilterRun(f, x, n) ==
    IF n = 0 THEN f ELSE FilterRun(EmaFilter(x, f), x, n - 1)

\* What every iteration under SpecGate samples on each channel
GateSample == F32(Volts(ADC_MAX))

\* The baselines setup() finds on each platform
Baselines ==
    [pl \in Platforms |-> ForEachChannel(LAMBDA ch : AutoZero(pl[ch]))]

\* The filtered voltages n such iterations leave, from those baselines
GateFiltered ==
    [pl \in Platforms |-> [n \in 0..MaxGateCycles |->
        ForEachChannel(LAMBDA ch : FilterRun(Baselines[pl][ch], GateSample, n))]]

\* was_in_deadzone as sections 2 to 4 of loop() leave it, given the
\* filtered voltages and the baselines
MembershipOf(filtered, rest) ==
    \A m \in {Zone(Measure(Locate(Rest(Sum(Calibrate(
                  [raw |-> ForEachChannel(LAMBDA ch :
                      voltageToRawUnit(filtered[ch], rest[ch]))]))))))} :
        NextDeadzone(m.isArmRested, m.now_in_deadzone)

GateMembership ==
    [pl \in Platforms |-> [n \in 1..MaxGateCycles |->
        MembershipOf(GateFiltered[pl][n], Baselines[pl])]]

\* C13: the filtered voltages and was_in_deadzone are what the samples so
\* far make them, whichever iterations wrote a row and whenever; an
\* iteration that writes no row leaves lastLogTime, and writes nothing.
C13_PipelineIgnoresGate ==
    /\ pc = "run" => filtered_v = GateFiltered[platform][cycles]
    /\ cycles >= 1 =>
         /\ was_in_deadzone = GateMembership[platform][cycles]
         /\ ~cyc.logged =>
                /\ lastLogTime = history.lastLogTime
                /\ history.log_elapsed = history.prev_log_elapsed

\* Iterations that wrote no row moved the filters all the same
C13_Witness ==
    /\ cycles >= 2
    /\ ~cyc.logged
    /\ ~history.prev.logged
    /\ filtered_v = GateFiltered[platform][cycles]
    /\ filtered_v # GateFiltered[platform][cycles - 1]
    /\ was_in_deadzone


\* The gate's comparison in the step at hand: the millis() the iteration
\* read for it, less the lastLogTime it found, is at least the interval
Due == U32GeInt(U32Sub(cyc'.gate_time, lastLogTime), LOG_INTERVAL_MS)

\* One row more on Serial
RowWritten == serial' = Append(serial, "row")

\* C14: an iteration writes a row if and only if the millis() it reads for
\* the gate, less lastLogTime, is at least LOG_INTERVAL_MS; it then sets
\* lastLogTime to a reading of millis() taken at or after the gate's, and
\* stamps the row with a reading taken at or after that one; an iteration
\* that writes no row leaves lastLogTime.
C14_GateAndLaterReadings ==
    [][cycles' = cycles + 1 =>
           /\ RowWritten = Due
           /\ Due =>
                /\ \E d \in GateReadDelays :
                       lastLogTime' = U32Add(cyc'.gate_time, d)
                /\ \E d \in GateReadDelays :
                       record'.Timestamp = U32Add(lastLogTime', d)
           /\ ~Due => (serial' = serial /\ lastLogTime' = lastLogTime)]_vars

\* A row written just as the interval is reached, the clock ticking between
\* the gate's reading, lastLogTime's and the timestamp's
C14_Witness ==
    /\ cyc.logged
    /\ U32Sub(cyc.gate_time, history.lastLogTime) = U32OfInt(LOG_INTERVAL_MS)
    /\ lastLogTime # cyc.gate_time
    /\ record.Timestamp # lastLogTime

\* C14 as the specification words it: lastLogTime and the row's timestamp
\* are the very reading of millis() that the gate compared.
C14_GateAndSameReading ==
    [][cycles' = cycles + 1 =>
           /\ RowWritten = Due
           /\ Due =>
                /\ lastLogTime' = cyc'.gate_time
                /\ record'.Timestamp = cyc'.gate_time
           /\ ~Due => (serial' = serial /\ lastLogTime' = lastLogTime)]_vars


\* C15: once setup() has run the baselines are the means auto-zeroing
\* found, after any number of loop() iterations; and before the first
\* iteration every filtered voltage equals its channel's baseline.
C15_BaselinesFixedFiltersStartThere ==
    pc = "run" =>
        /\ v_rest = Baselines[platform]
        /\ cycles = 0 => filtered_v = v_rest

\* Iterations that moved every filter and left the baselines
C15_Witness ==
    /\ cycles = MaxCycles
    /\ \A ch \in Channels : filtered_v[ch] # v_rest[ch]
    /\ v_rest = Baselines[platform]


\* C16: a rested cycle that follows a cycle without rest raises
\* copStateChanged exactly when its centre of pressure is inside the dead
\* zone, also when the last rested cycle before was inside it already.
C16_ReentryAfterRestLoss ==
    [][(/\ cycles >= 1
        /\ ~cyc.isArmRested
        /\ cycles' = cycles + 1
        /\ cyc'.isArmRested) =>
           cyc'.copStateChanged = cyc'.now_in_deadzone]_vars

\* Inside the dead zone, then rest lost, then rested inside again: raised
C16_Witness ==
    /\ cyc.isArmRested
    /\ cyc.now_in_deadzone
    /\ cyc.copStateChanged
    /\ ~history.prev.isArmRested
    /\ history.prev.entered_in_deadzone

\* C17: copStateChanged is raised only on a rested cycle; was_in_deadzone
\* is true only after a rested cycle whose centre of pressure is within
\* DEAD_ZONE_RADIUS_CM of the centre; it is false before the first cycle.
C17_MembershipNeedsRest ==
    /\ cyc.copStateChanged => cyc.isArmRested
    /\ was_in_deadzone =>
         /\ cycles >= 1
         /\ cyc.isArmRested
         /\ Le(cyc.dist_from_center, DEAD_ZONE_RADIUS_CM)
    /\ cycles = 0 => ~was_in_deadzone

\* Rest lost from inside the dead zone: no signal, membership false
C17_Witness ==
    /\ cycles >= 2
    /\ ~cyc.isArmRested
    /\ cyc.entered_in_deadzone
    /\ ~cyc.copStateChanged
    /\ ~was_in_deadzone
    /\ history.prev.isArmRested

\* C18: a row carries the forces, isArmRested, copStateChanged and centre
\* of pressure of the iteration that writes it, copStateChanged being 1
\* only if that very iteration changed the membership; an iteration that
\* writes none leaves Serial as it was, so a copStateChanged raised then
\* is in no row.
C18_RowOfItsOwnCycle ==
    [][cycles' = cycles + 1 =>
           /\ cyc'.logged =>
                  /\ serial' = Append(serial, "row")
                  /\ record'.F_left = cyc'.F.left
                  /\ record'.F_right = cyc'.F.right
                  /\ record'.F_vtc = cyc'.F.vtc
                  /\ record'.F_tot = cyc'.F_tot
                  /\ record'.is_rested = BoolArg(cyc'.isArmRested)
                  /\ record'.copStateChanged = BoolArg(cyc'.copStateChanged)
                  /\ record'.copStateChanged = 1 =>
                         (was_in_deadzone' # was_in_deadzone)
                  /\ record'.CoP_X = cyc'.cop_x
                  /\ record'.CoP_Y = cyc'.cop_y
           /\ ~cyc'.logged => (serial' = serial /\ record' = record)]_vars

\* The membership changed on an iteration that wrote no row; the next
\* iteration wrote one, which does not show the change
C18_Witness ==
    /\ history.prev.copStateChanged
    /\ ~history.prev.logged
    /\ cyc.logged
    /\ cyc.isArmRested
    /\ ~cyc.copStateChanged
    /\ record.copStateChanged = 0


\* C19: also when millis() wraps round to 0, an iteration writes a row if
\* and only if at least LOG_INTERVAL_MS true milliseconds have passed, when
\* it reads the gate, since lastLogTime was read; so the gate neither
\* stalls nor opens on every iteration, and the readings of lastLogTime
\* of two successive rows are at least LOG_INTERVAL_MS apart.
C19_GateAcrossWrap ==
    cycles >= 1 =>
        /\ cyc.logged =
               (history.gate_elapsed - history.prev_log_elapsed
                    >= LOG_INTERVAL_MS)
        /\ cyc.logged =>
               (history.log_elapsed - history.prev_log_elapsed
                    >= LOG_INTERVAL_MS)

\* A row written after millis() wrapped round, the interval counted from a
\* lastLogTime read before it did
C19_Witness ==
    /\ cyc.logged
    /\ cyc.gate_time[1] = 0
    /\ history.lastLogTime[1] = Half - 1
    /\ Rows >= 2

=============================================================================
